---- MODULE Spec2Model ----
(***************************************************************************)
(* The stage scheduler of yam (src/src/app.rs): AppBuilder, App::run, the  *)
(* AppSettings resource with its deferred AppCommand queue, and AppStage   *)
(* with the PulseTimer that gates its process schedule.                    *)
(***************************************************************************)
EXTENDS Integers, Sequences, FiniteSets, TLC

VARIABLES
    pc,             \* position of the control thread in AppBuilder / App::run
    idx,            \* position of the `for stage in ... .iter()` traversal
    inUnit,         \* a schedule of busy_stages[idx] is executing (systems may call AppSettings)
    readers,        \* shared RefCell borrows of busy_stages held across steps
    stage_builders, \* AppBuilder::stage_builders
    busy_stages,    \* App::busy_stages, shared with AppSettings through the Rc<RefCell<..>>
    spare_stages,   \* AppSettings::spare_stages
    commands,       \* AppSettings::commands
    nextUnit,       \* number of schedules triples compiled so far (identity of a stage value)
    lastResult,     \* what the last AppSettings / AppBuilder call returned to its caller
    lastBatch,      \* the queue the last apply() drained, and how far it got
    inited,         \* stages (by startup schedule) that received init, in call order
    played,         \* stages that received play in the current iteration, in call order
    freed,          \* stages that received free, in call order
    quitSeen,       \* "no", "issued" (quit() called, no apply() since), "applied"
    parked,         \* stage values as they were when apply() moved them to spare
    calls,          \* calls so far that changed a field of AppSettings
    inserted,       \* stages (by startup schedule) the last apply() put into the busy list
    hasSettings,    \* resources.contains::<AppSettings>()
    removed,        \* AppSettings was moved out of the resources since the last apply step
    meter           \* what a timer under observation was given and what it reported

vars == <<pc, idx, inUnit, readers, stage_builders, busy_stages, spare_stages, commands,
          nextUnit, lastResult, lastBatch, inited, played, freed, quitSeen, parked,
          calls, inserted, hasSettings, removed, meter>>

\* ---------------------------------------------------------------- bounds
MaxStages == 3      \* stage values handed to the application in one run
MaxCmds == 2        \* commands queued between two apply() calls
MaxCalls == 2       \* calls of one run that change a field of AppSettings
MaxBatch == 3       \* calls, and queued commands, of a run of the batch scenario
MaxTime == 6        \* elapsed time a timer is observed for, in half seconds
MaxDelta == 3       \* largest delta one update() is given, in half seconds
MaxLeftover == 2    \* largest accumulated time a timer is first observed with

Names == {"a", "b"}
Freqs == {1, 2}

\* ---------------------------------------------------------------- PulseTimer
\* Time is counted in a unit that makes 1/ticks_per_second an integer: half seconds
\* for the frequencies of Freqs, 1/120 s for the frequencies 60 and 30 of the
\* physics and render stages.
UnitsPerSecond(ticks_per_second) == IF ticks_per_second \in Freqs THEN 2 ELSE 120

Interval(ticks_per_second) == UnitsPerSecond(ticks_per_second) \div ticks_per_second

PulseTimerNew(frequency) ==
    [ticks_per_second |-> frequency, accumulated_time |-> 0]

\* update() that reports the tick and keeps the whole accumulated time
PulseTimerUpdate_keeps_time(timer, delta) ==
    LET acc == timer.accumulated_time + delta
    IN  <<[timer EXCEPT !.accumulated_time = acc], acc >= Interval(timer.ticks_per_second)>>

\* update(): <<timer after the call, whether a tick is reported>>
PulseTimerUpdate(timer, delta) ==
    LET acc == timer.accumulated_time + delta
        interval == Interval(timer.ticks_per_second)
    IN  IF acc >= interval
        THEN <<[timer EXCEPT !.accumulated_time = acc - interval], TRUE>>
        ELSE <<[timer EXCEPT !.accumulated_time = acc], FALSE>>

\* ---------------------------------------------------------------- AppStage
AppStageNew(name, timer, startup, process, destroy) ==
    [name |-> name, timer |-> timer,
     startup |-> startup, process |-> process, destroy |-> destroy]

\* AppStage::set_frequency
SetFrequency(stage, frequency) ==
    [stage EXCEPT !.timer.ticks_per_second = frequency]

AppStageBuilderNew(name, frequency) == [name |-> name, frequency |-> frequency]

\* AppStageBuilder::build: the k-th stage built owns the k-th triple of schedules
AppStageBuilderBuild(sb, k) ==
    AppStageNew(sb.name, PulseTimerNew(sb.frequency), k, k, k)

\* ---------------------------------------------------------------- sequences
\* iter().enumerate().find(|(_, s)| s.name() == name): first index, 0 for None
FindIndex(stages, name) ==
    IF \E i \in DOMAIN stages : stages[i].name = name
    THEN CHOOSE i \in DOMAIN stages :
            /\ stages[i].name = name
            /\ \A j \in 1..(i - 1) : stages[j].name /= name
    ELSE 0

\* Vec::insert(index, x) with a 0-based index
VecInsert(v, index, x) == SubSeq(v, 1, index) \o <<x>> \o SubSeq(v, index + 1, Len(v))

\* Vec::remove(index) with a 1-based index
VecRemove(v, i) == SubSeq(v, 1, i - 1) \o SubSeq(v, i + 1, Len(v))

NoStage == [name |-> "none"]
NoResult == [op |-> "none", status |-> "none", given |-> NoStage, anchor |-> "none",
             back |-> NoStage]
NoBatch == [cmds |-> <<>>, done |-> 0, out |-> "none"]
NoMeter == [leftover_0 |-> 0, elapsed |-> 0, ticks |-> 0, largest |-> 0, updated |-> FALSE]

\* What the claims compare of a stage value: everything but the timer's accumulator
View(stage) ==
    [name |-> stage.name, frequency |-> stage.timer.ticks_per_second,
     startup |-> stage.startup, process |-> stage.process, destroy |-> stage.destroy]

\* ---------------------------------------------------------------- AppSettings
\* The methods of AppSettings as functions of its three fields
\*   s = [busy |-> .., spare |-> .., commands |-> ..]
\* to the fields after the call, the Result's variant and the stage the Err carries.
Settings == [busy |-> busy_stages, spare |-> spare_stages, commands |-> commands]

Ret(s, status, back) ==
    [busy |-> s.busy, spare |-> s.spare, commands |-> s.commands,
     status |-> status, back |-> back]

Enqueue(s, cmd) == [s EXCEPT !.commands = Append(@, cmd)]

is_in_busy(s, stage_name) == FindIndex(s.busy, stage_name) /= 0

is_in_spare(s, stage_name) == FindIndex(s.spare, stage_name) /= 0

push_stage_to_work_before(s, stage, after_stage_name) ==
    IF is_in_busy(s, after_stage_name)
    THEN IF is_in_busy(s, stage.name)
         THEN Ret(s, "DuplicateNameInBusy", stage)
         ELSE IF is_in_spare(s, stage.name)
         THEN Ret(s, "DuplicateNameInSpare", stage)
         ELSE Ret(Enqueue(s, [type |-> "PushStageToWorkBefore", stage |-> stage,
                              after_stage_name |-> after_stage_name]),
                  "Ok", NoStage)
    ELSE Ret(s, "StageNotExistInBusy", stage)

\* push_stage_to_work without the look into the spare list
push_stage_to_work_no_spare_check(s, stage) ==
    IF is_in_busy(s, stage.name)
    THEN Ret(s, "DuplicateNameInBusy", stage)
    ELSE Ret(Enqueue(s, [type |-> "PushStageToWork", stage |-> stage]), "Ok", NoStage)

push_stage_to_work(s, stage) ==
    IF is_in_busy(s, stage.name)
    THEN Ret(s, "DuplicateNameInBusy", stage)
    ELSE IF is_in_spare(s, stage.name)
    THEN Ret(s, "DuplicateNameInSpare", stage)
    ELSE Ret(Enqueue(s, [type |-> "PushStageToWork", stage |-> stage]), "Ok", NoStage)

\* push_stage_to_work_after whose anchor error keeps the stage
push_stage_to_work_after_drops_stage(s, stage, before_stage_name) ==
    IF is_in_busy(s, before_stage_name)
    THEN IF is_in_busy(s, stage.name)
         THEN Ret(s, "DuplicateNameInBusy", stage)
         ELSE IF is_in_spare(s, stage.name)
         THEN Ret(s, "DuplicateNameInSpare", stage)
         ELSE Ret(Enqueue(s, [type |-> "PushStageToWorkAfter", stage |-> stage,
                              before_stage_name |-> before_stage_name]),
                  "Ok", NoStage)
    ELSE Ret(s, "StageNotExistInBusy", NoStage)

push_stage_to_work_after(s, stage, before_stage_name) ==
    IF is_in_busy(s, before_stage_name)
    THEN IF is_in_busy(s, stage.name)
         THEN Ret(s, "DuplicateNameInBusy", stage)
         ELSE IF is_in_spare(s, stage.name)
         THEN Ret(s, "DuplicateNameInSpare", stage)
         ELSE Ret(Enqueue(s, [type |-> "PushStageToWorkAfter", stage |-> stage,
                              before_stage_name |-> before_stage_name]),
                  "Ok", NoStage)
    ELSE Ret(s, "StageNotExistInBusy", stage)

\* take_spare_stage: <<fields after the call, Some(stage) or NoStage for None>>
\* take_spare_stage that hands the stage out and leaves it in the spare list
take_spare_stage_peek(s, stage_name) ==
    LET index == FindIndex(s.spare, stage_name)
    IN  IF index /= 0
        THEN Ret(s, "Some", s.spare[index])
        ELSE Ret(s, "None", NoStage)

take_spare_stage(s, stage_name) ==
    LET index == FindIndex(s.spare, stage_name)
    IN  IF index /= 0
        THEN Ret([s EXCEPT !.spare = VecRemove(@, index)], "Some", s.spare[index])
        ELSE Ret(s, "None", NoStage)

make_spare_stage_work_before(s, stage_name, after_stage_name) ==
    LET t == take_spare_stage(s, stage_name)
    IN  IF t.status = "Some"
        THEN push_stage_to_work_before([busy |-> t.busy, spare |-> t.spare,
                                        commands |-> t.commands], t.back, after_stage_name)
        ELSE Ret(s, "StageNotExistInSpare", NoStage)

make_spare_stage_work(s, stage_name) ==
    LET t == take_spare_stage(s, stage_name)
    IN  IF t.status = "Some"
        THEN push_stage_to_work([busy |-> t.busy, spare |-> t.spare,
                                 commands |-> t.commands], t.back)
        ELSE Ret(s, "StageNotExistInSpare", NoStage)

make_spare_stage_work_after(s, stage_name, before_stage_name) ==
    LET t == take_spare_stage(s, stage_name)
    IN  IF t.status = "Some"
        THEN push_stage_to_work_after([busy |-> t.busy, spare |-> t.spare,
                                       commands |-> t.commands], t.back, before_stage_name)
        ELSE Ret(s, "StageNotExistInSpare", NoStage)

push_stage_to_rest(s, stage) ==
    IF is_in_busy(s, stage.name)
    THEN Ret(s, "DuplicateNameInBusy", stage)
    ELSE IF is_in_spare(s, stage.name)
    THEN Ret(s, "DuplicateNameInSpare", stage)
    ELSE Ret([s EXCEPT !.spare = Append(@, stage)], "Ok", NoStage)

\* make_busy_stage_rest that moves the stage to the spare list at once
make_busy_stage_rest_at_once(s, stage_name) ==
    IF is_in_busy(s, stage_name)
    THEN Ret([s EXCEPT !.busy = VecRemove(@, FindIndex(s.busy, stage_name)),
                       !.spare = Append(@, s.busy[FindIndex(s.busy, stage_name)])],
             "Ok", NoStage)
    ELSE Ret(s, "StageNotExistInBusy", NoStage)

make_busy_stage_rest(s, stage_name) ==
    IF is_in_busy(s, stage_name)
    THEN Ret(Enqueue(s, [type |-> "MakeBusyStageToRest", stage_name |-> stage_name]),
             "Ok", NoStage)
    ELSE Ret(s, "StageNotExistInBusy", NoStage)

\* set_stage_frequency that sets a busy stage's frequency in place
set_stage_frequency_in_place(s, stage_name, frequency) ==
    IF is_in_spare(s, stage_name)
    THEN Ret([s EXCEPT !.spare[FindIndex(s.spare, stage_name)] =
                            SetFrequency(@, frequency)],
             "Ok", NoStage)
    ELSE IF is_in_busy(s, stage_name)
    THEN Ret([s EXCEPT !.busy[FindIndex(s.busy, stage_name)] =
                            SetFrequency(@, frequency)],
             "Ok", NoStage)
    ELSE Ret(s, "StageNotExist", NoStage)

set_stage_frequency(s, stage_name, frequency) ==
    IF is_in_spare(s, stage_name)
    THEN Ret([s EXCEPT !.spare[FindIndex(s.spare, stage_name)] =
                            SetFrequency(@, frequency)],
             "Ok", NoStage)
    ELSE IF is_in_busy(s, stage_name)
    THEN Ret(Enqueue(s, [type |-> "SetBusyStageFrequency", stage_name |-> stage_name,
                         frequency |-> frequency]),
             "Ok", NoStage)
    ELSE Ret(s, "StageNotExist", NoStage)

\* quit() that returns without queueing the command
quit_not_queued(s) == Ret(s, "Ok", NoStage)

quit(s) == Ret(Enqueue(s, [type |-> "AppQuit"]), "Ok", NoStage)

\* ---------------------------------------------------------------- AppSettings::apply
\* The arms of the match in apply(): st = [busy, spare, out, ..], out "next" to go on
\* with the following command, "true" for `return true`, "panic" for a failed unwrap().
\* st.readers counts the borrow() guards of busy_stages that are alive during the call:
\* borrow_mut() panics under any of them.
\* a PushStageToWorkBefore arm that inserts one place too far
ApplyPushStageToWorkBefore_off_by_one(st, cmd) ==
    LET index == FindIndex(st.busy, cmd.after_stage_name)
    IN  IF index = 0 THEN [st EXCEPT !.out = "panic"]
        ELSE IF st.readers > 0 THEN [st EXCEPT !.out = "already borrowed"]
        ELSE [st EXCEPT !.busy = VecInsert(@, index, cmd.stage)]

ApplyPushStageToWorkBefore(st, cmd) ==
    LET index == FindIndex(st.busy, cmd.after_stage_name)
    IN  IF index = 0 THEN [st EXCEPT !.out = "panic"]
        ELSE IF st.readers > 0 THEN [st EXCEPT !.out = "already borrowed"]
        ELSE [st EXCEPT !.busy = VecInsert(@, index - 1, cmd.stage)]

\* a PushStageToWork arm that puts the stage into the spare list
ApplyPushStageToWork_to_spare(st, cmd) ==
    IF st.readers > 0 THEN [st EXCEPT !.out = "already borrowed"]
    ELSE [st EXCEPT !.spare = Append(@, cmd.stage)]

ApplyPushStageToWork(st, cmd) ==
    IF st.readers > 0 THEN [st EXCEPT !.out = "already borrowed"]
    ELSE [st EXCEPT !.busy = Append(@, cmd.stage)]

ApplyPushStageToWorkAfter(st, cmd) ==
    LET index == FindIndex(st.busy, cmd.before_stage_name)
    IN  IF index = 0 THEN [st EXCEPT !.out = "panic"]
        ELSE IF st.readers > 0 THEN [st EXCEPT !.out = "already borrowed"]
        ELSE [st EXCEPT !.busy = VecInsert(@, (index - 1) + 1, cmd.stage)]

\* a MakeBusyStageToRest arm that leaves the stage in the busy list as well
ApplyMakeBusyStageToRest_keeps_busy(st, cmd) ==
    LET index == FindIndex(st.busy, cmd.stage_name)
    IN  IF index = 0 THEN [st EXCEPT !.out = "panic"]
        ELSE IF st.readers > 0 THEN [st EXCEPT !.out = "already borrowed"]
        ELSE [st EXCEPT !.spare = Append(@, st.busy[index])]

\* a MakeBusyStageToRest arm that parks the stage with a fresh timer
ApplyMakeBusyStageToRest_new_timer(st, cmd) ==
    LET index == FindIndex(st.busy, cmd.stage_name)
    IN  IF index = 0 THEN [st EXCEPT !.out = "panic"]
        ELSE IF st.readers > 0 THEN [st EXCEPT !.out = "already borrowed"]
        ELSE [st EXCEPT !.busy = VecRemove(@, index),
                        !.spare = Append(@, [st.busy[index] EXCEPT
                                                !.timer = PulseTimerNew(1)])]

ApplyMakeBusyStageToRest(st, cmd) ==
    LET index == FindIndex(st.busy, cmd.stage_name)
    IN  IF index = 0 THEN [st EXCEPT !.out = "panic"]
        ELSE IF st.readers > 0 THEN [st EXCEPT !.out = "already borrowed"]
        ELSE [st EXCEPT !.busy = VecRemove(@, index),
                        !.spare = Append(@, st.busy[index])]

\* a SetBusyStageFrequency arm that finds the stage and leaves its timer alone
ApplySetBusyStageFrequency_no_effect(st, cmd) ==
    LET index == FindIndex(st.busy, cmd.stage_name)
    IN  IF st.readers > 0 THEN [st EXCEPT !.out = "already borrowed"]
        ELSE IF index = 0 THEN [st EXCEPT !.out = "panic"]
        ELSE st

ApplySetBusyStageFrequency(st, cmd) ==
    LET index == FindIndex(st.busy, cmd.stage_name)
    IN  IF st.readers > 0 THEN [st EXCEPT !.out = "already borrowed"]
        ELSE IF index = 0 THEN [st EXCEPT !.out = "panic"]
        ELSE [st EXCEPT !.busy[index] = SetFrequency(@, cmd.frequency)]

\* an AppQuit arm that ends apply() with a fault
ApplyAppQuit_faults(st, cmd) == [st EXCEPT !.out = "panic"]

\* an AppQuit arm that falls through to the next command
ApplyAppQuit_no_return(st, cmd) == st

ApplyAppQuit(st, cmd) == [st EXCEPT !.out = "true"]

\* match cmd { .. }
ApplyCmd(st, cmd) ==
    CASE cmd.type = "PushStageToWorkBefore" -> ApplyPushStageToWorkBefore(st, cmd)
      [] cmd.type = "PushStageToWork" -> ApplyPushStageToWork(st, cmd)
      [] cmd.type = "PushStageToWorkAfter" -> ApplyPushStageToWorkAfter(st, cmd)
      [] cmd.type = "MakeBusyStageToRest" -> ApplyMakeBusyStageToRest(st, cmd)
      [] cmd.type = "SetBusyStageFrequency" -> ApplySetBusyStageFrequency(st, cmd)
      [] cmd.type = "AppQuit" -> ApplyAppQuit(st, cmd)

\* The snapshots of parked stages after one command: a stage moved to spare is
\* recorded as it was in the busy list, a stage whose frequency is set is forgotten.
ParkedAfter(pk, busy, cmd) ==
    LET index == IF cmd.type \in {"MakeBusyStageToRest", "SetBusyStageFrequency"}
                 THEN FindIndex(busy, cmd.stage_name) ELSE 0
        others == IF index = 0 THEN pk
                  ELSE {p \in pk : p.startup /= busy[index].startup}
    IN  IF index /= 0 /\ cmd.type = "MakeBusyStageToRest"
        THEN others \cup {View(busy[index])}
        ELSE others

\* for cmd in self.commands.drain(..): the commands from the i-th on.
\* done counts the commands whose arm ran to its end.
RECURSIVE ApplyFrom(_, _, _)
ApplyFrom(st, cmds, i) ==
    IF i > Len(cmds)
    THEN [st EXCEPT !.out = "false"]
    ELSE LET n == ApplyCmd(st, cmds[i])
         IN  IF n.out = "next"
             THEN ApplyFrom([n EXCEPT !.done = i,
                                      !.parked = ParkedAfter(st.parked, st.busy, cmds[i])],
                            cmds, i + 1)
             ELSE n

\* apply() that works through the other commands of the batch before it acts on a quit
apply_quit_last(s, pk, rd) ==
    ApplyFrom([busy |-> s.busy, spare |-> s.spare, out |-> "next", done |-> 0,
               parked |-> pk, readers |-> rd],
              SelectSeq(s.commands, LAMBDA c : c.type /= "AppQuit")
                  \o SelectSeq(s.commands, LAMBDA c : c.type = "AppQuit"),
              1)

\* apply(): the lists after the call and what it returned
apply(s, pk, rd) ==
    ApplyFrom([busy |-> s.busy, spare |-> s.spare, out |-> "next", done |-> 0,
               parked |-> pk, readers |-> rd],
              s.commands, 1)

\* ---------------------------------------------------------------- AppStage::play
\* play() that calls update() a second time when the first call reports no tick
play_update_twice(stage, delta) ==
    LET u == PulseTimerUpdate(stage.timer, delta)
        v == PulseTimerUpdate(u[1], delta)
    IN  IF u[2] THEN <<[stage EXCEPT !.timer = u[1]], TRUE>>
        ELSE <<[stage EXCEPT !.timer = v[1]], v[2]>>

\* play() that calls update() on a copy of the stage's timer
play_timer_copy(stage, delta) == <<stage, PulseTimerUpdate(stage.timer, delta)[2]>>

\* play() that executes the process schedule whatever update() reports
play_ungated(stage, delta) ==
    <<[stage EXCEPT !.timer = PulseTimerUpdate(stage.timer, delta)[1]], TRUE>>

\* play(): <<the stage after timer.update(), whether the process schedule executes>>
play(stage, delta) ==
    LET u == PulseTimerUpdate(stage.timer, delta)
    IN  <<[stage EXCEPT !.timer = u[1]], u[2]>>

Units(stages) == [i \in DOMAIN stages |-> stages[i].startup]

UnitSet(stages) == {stages[i].startup : i \in DOMAIN stages}

\* a snapshot is kept while the stage is parked, and for the apply() that brings it back
StillParked == {p \in parked : p.startup \notin UnitSet(busy_stages)}

\* ---------------------------------------------------------------- AppBuilder
Init ==
    /\ pc = "build"
    /\ idx = 1
    /\ inUnit = FALSE
    /\ readers = 0
    /\ stage_builders = <<>>
    /\ busy_stages = <<>>
    /\ spare_stages = <<>>
    /\ commands = <<>>
    /\ nextUnit = 0
    /\ lastResult = NoResult
    /\ lastBatch = NoBatch
    /\ inited = <<>>
    /\ played = <<>>
    /\ freed = <<>>
    /\ quitSeen = "no"
    /\ parked = {}
    /\ calls = 0
    /\ inserted = {}
    /\ hasSettings = FALSE
    /\ removed = FALSE
    /\ meter = NoMeter

\* has_stage that looks at the last stage builder only
has_stage_last_only(builders, stage_name) ==
    builders /= <<>> /\ builders[Len(builders)].name = stage_name

\* AppBuilder::has_stage
has_stage(builders, stage_name) == FindIndex(builders, stage_name) /= 0

\* AppBuilder::add_stage_builder takes self by value: Ok(self) with the builder pushed,
\* or Err(DuplicateName(stage_builder)) with self dropped
add_stage_builder(builders, stage_builder) ==
    IF has_stage(builders, stage_builder.name)
    THEN [builders |-> <<>>, status |-> "DuplicateName", back |-> stage_builder]
    ELSE [builders |-> Append(builders, stage_builder), status |-> "Ok", back |-> NoStage]

\* AppBuilder::create_stage_builder: Ok(stage_builder) with self kept in its app_builder
\* field, or Err(DuplicateName(stage_builder)) with self dropped
create_stage_builder(builders, stage_name, frequency) ==
    LET stage_builder == AppStageBuilderNew(stage_name, frequency)
    IN  IF has_stage(builders, stage_builder.name)
        THEN [builders |-> <<>>, status |-> "DuplicateName", back |-> stage_builder]
        ELSE [builders |-> builders, status |-> "Ok", back |-> NoStage]

\* AppStageBuilder::into_app_builder: add_stage_builder(self).ok().unwrap() on the
\* AppBuilder of the app_builder field
into_app_builder(app_builder, stage_builder) ==
    LET r == add_stage_builder(app_builder, stage_builder)
    IN  IF r.status = "Ok" THEN r ELSE [r EXCEPT !.status = "panic"]

\* AppBuilder::build: stage_builders.into_iter().map(|b| b.build()).collect()
build(builders) ==
    [i \in DOMAIN builders |-> AppStageBuilderBuild(builders[i], i)]

AddStageBuilder(name, frequency) ==
    /\ pc = "build"
    /\ lastResult = NoResult
    /\ Len(stage_builders) < MaxStages
    /\ LET sb == AppStageBuilderNew(name, frequency)
           r == add_stage_builder(stage_builders, sb)
       IN  /\ stage_builders' = r.builders
           /\ lastResult' = [op |-> "add_stage_builder", status |-> r.status,
                             given |-> sb, anchor |-> "none", back |-> r.back]
    /\ UNCHANGED <<pc, idx, inUnit, readers, busy_stages, spare_stages, commands, nextUnit,
                   lastBatch, inited, played, freed, quitSeen, parked, calls, inserted,
                   hasSettings, removed, meter>>

CreateStageBuilder(name, frequency) ==
    /\ pc = "build"
    /\ lastResult = NoResult
    /\ Len(stage_builders) < MaxStages
    /\ LET r == create_stage_builder(stage_builders, name, frequency)
       IN  /\ stage_builders' = r.builders
           /\ pc' = IF r.status = "Ok" THEN "stage" ELSE "build"
           /\ lastResult' = [op |-> "create_stage_builder", status |-> r.status,
                             given |-> AppStageBuilderNew(name, frequency),
                             anchor |-> "none", back |-> r.back]
    /\ UNCHANGED <<idx, inUnit, readers, busy_stages, spare_stages, commands, nextUnit,
                   lastBatch, inited, played, freed, quitSeen, parked, calls, inserted,
                   hasSettings, removed, meter>>

\* the stage builder create_stage_builder returned goes back into its AppBuilder
IntoAppBuilder ==
    /\ pc = "stage"
    /\ LET r == into_app_builder(stage_builders, lastResult.given)
       IN  /\ stage_builders' = r.builders
           /\ pc' = IF r.status = "Ok" THEN "build" ELSE "fault"
    /\ lastResult' = NoResult
    /\ UNCHANGED <<idx, inUnit, readers, busy_stages, spare_stages, commands, nextUnit,
                   lastBatch, inited, played, freed, quitSeen, parked, calls, inserted,
                   hasSettings, removed, meter>>

\* AppBuilder::build, then App::run up to the first traversal
BuildAndRun ==
    /\ pc = "build"
    /\ lastResult = NoResult
    /\ Len(stage_builders) <= MaxStages
    /\ busy_stages' = build(stage_builders)
    /\ nextUnit' = Len(stage_builders)
    /\ pc' = "init"
    /\ idx' = 1
    /\ readers' = 1
    /\ hasSettings' = TRUE
    /\ UNCHANGED <<inUnit, lastResult, stage_builders, spare_stages, commands, lastBatch, inited,
                   played, freed, quitSeen, parked, calls, inserted, removed, meter>>

\* ---------------------------------------------------------------- App::run
\* for stage in busy_stages.borrow().iter() { stage.init(..) }
InitStage ==
    /\ pc = "init" /\ ~inUnit /\ idx <= Len(busy_stages)
    /\ inUnit' = TRUE
    /\ inited' = Append(inited, busy_stages[idx].startup)
    /\ UNCHANGED <<pc, idx, readers, stage_builders, busy_stages, spare_stages, commands,
                   nextUnit, lastResult, lastBatch, played, freed, quitSeen, parked, calls, inserted, hasSettings, removed, removed, meter>>

\* the schedule that is executing returns; the traversal moves on
UnitReturn ==
    /\ inUnit
    /\ lastResult = NoResult
    /\ inUnit' = FALSE
    /\ idx' = idx + 1
    /\ UNCHANGED <<pc, readers, stage_builders, busy_stages, spare_stages, commands,
                   nextUnit, lastResult, lastBatch, inited, played, freed, quitSeen, parked, calls, inserted, hasSettings, removed, removed, meter>>

\* the caller is done with the Result of its call: the value, and the stage an
\* Err or a Some carries, are dropped
ResultDropped ==
    /\ lastResult /= NoResult
    /\ pc /= "stage"
    /\ lastResult' = NoResult
    /\ UNCHANGED <<pc, idx, inUnit, readers, stage_builders, busy_stages, spare_stages,
                   commands, nextUnit, lastBatch, inited, played, freed, quitSeen, parked, calls, inserted, hasSettings, removed, removed, meter>>

\* a traversal ends: its borrow of busy_stages is dropped
PassDone ==
    /\ pc \in {"init", "play"} /\ ~inUnit /\ idx > Len(busy_stages)
    /\ pc' = "apply"
    /\ readers' = 0
    /\ lastBatch' = NoBatch
    /\ parked' = StillParked
    /\ UNCHANGED <<idx, inUnit, stage_builders, busy_stages, spare_stages, commands,
                   nextUnit, lastResult, inited, played, freed, quitSeen, calls, inserted, hasSettings, removed, removed, meter>>

\* The stages the first n commands of a batch put into the busy list
InsertedBy(cmds, n) ==
    {cmds[i].stage.startup :
        i \in {j \in 1..n : cmds[j].type \in
                  {"PushStageToWorkBefore", "PushStageToWork", "PushStageToWorkAfter"}}}

\* apply_and_ask_quit without the look into the resources
apply_and_ask_quit_unchecked(contains, s, pk, rd) == apply(s, pk, rd)

\* apply_and_ask_quit: out "moved" for panic!("dont move AppSettings out from Resources")
apply_and_ask_quit(contains, s, pk, rd) ==
    IF contains
    THEN apply(s, pk, rd)
    ELSE [busy |-> s.busy, spare |-> s.spare, out |-> "moved", done |-> 0,
          parked |-> pk, readers |-> rd]

\* while !apply_and_ask_quit(&mut resources)
Apply ==
    /\ pc = "apply"
    /\ LET r == apply_and_ask_quit(hasSettings, Settings, parked, readers)
           ran == r.out /= "moved"
       IN  /\ busy_stages' = r.busy
           /\ spare_stages' = r.spare
           /\ commands' = IF ran THEN <<>> ELSE commands
           /\ parked' = r.parked
           /\ lastBatch' = IF ran THEN [cmds |-> commands, done |-> r.done, out |-> r.out]
                           ELSE lastBatch
           /\ inserted' = IF ran THEN InsertedBy(commands, r.done) ELSE inserted
           /\ pc' = CASE r.out = "false" -> "play"
                      [] r.out = "true" -> "free"
                      [] r.out = "moved" -> "moved"
                      [] OTHER -> "fault"
           /\ readers' = IF r.out \in {"false", "true"} THEN 1 ELSE 0
           /\ played' = IF r.out = "false" THEN <<>> ELSE played
           /\ idx' = IF ran THEN 1 ELSE idx
           /\ quitSeen' = IF ran /\ quitSeen = "issued" THEN "applied" ELSE quitSeen
           /\ removed' = IF ran THEN FALSE ELSE removed
    /\ UNCHANGED <<inUnit, stage_builders, nextUnit, lastResult, inited, freed, calls,
                   hasSettings, meter>>

\* a play pass that runs the startup schedule of a stage that never received init
PlayStage_inits_newcomer(delta) ==
    /\ pc = "play" /\ ~inUnit /\ idx <= Len(busy_stages)
    /\ LET r == play(busy_stages[idx], delta)
       IN  /\ busy_stages' = [busy_stages EXCEPT ![idx] = r[1]]
           /\ inUnit' = r[2]
           /\ idx' = IF r[2] THEN idx ELSE idx + 1
    /\ played' = Append(played, busy_stages[idx].startup)
    /\ inited' = IF \E i \in DOMAIN inited : inited[i] = busy_stages[idx].startup
                  THEN inited
                  ELSE Append(inited, busy_stages[idx].startup)
    /\ lastBatch' = NoBatch
    /\ parked' = StillParked
    /\ UNCHANGED <<pc, readers, stage_builders, spare_stages, commands, nextUnit,
                   lastResult, freed, quitSeen, calls, inserted, hasSettings, removed, meter>>

\* for stage in busy_stages.borrow().iter() { stage.play(..) }
PlayStage(delta) ==
    /\ pc = "play" /\ ~inUnit /\ idx <= Len(busy_stages)
    /\ LET r == play(busy_stages[idx], delta)
       IN  /\ busy_stages' = [busy_stages EXCEPT ![idx] = r[1]]
           /\ inUnit' = r[2]
           /\ idx' = IF r[2] THEN idx ELSE idx + 1
    /\ played' = Append(played, busy_stages[idx].startup)
    /\ lastBatch' = NoBatch
    /\ parked' = StillParked
    /\ UNCHANGED <<pc, readers, stage_builders, spare_stages, commands, nextUnit,
                   lastResult, inited, freed, quitSeen, calls, inserted, hasSettings, removed, removed, meter>>

\* for stage in busy_stages.borrow().iter() { stage.free(..) }
FreeStage ==
    /\ pc = "free" /\ ~inUnit /\ idx <= Len(busy_stages)
    /\ inUnit' = TRUE
    /\ freed' = Append(freed, busy_stages[idx].startup)
    /\ lastBatch' = NoBatch
    /\ parked' = StillParked
    /\ UNCHANGED <<pc, idx, readers, stage_builders, busy_stages, spare_stages, commands,
                   nextUnit, lastResult, inited, played, quitSeen, calls, inserted, hasSettings, removed, removed, meter>>

\* run() returns
FreeDone ==
    /\ pc = "free" /\ ~inUnit /\ idx > Len(busy_stages)
    /\ pc' = "done"
    /\ readers' = 0
    /\ lastBatch' = NoBatch
    /\ parked' = StillParked
    /\ UNCHANGED <<idx, inUnit, stage_builders, busy_stages, spare_stages, commands,
                   nextUnit, lastResult, inited, played, freed, quitSeen, calls, inserted, hasSettings, removed, removed, meter>>

\* ---------------------------------------------------------------- systems calling AppSettings
\* A system of the executing schedule builds a stage: the next triple of schedules
FreshStage(name, frequency) ==
    AppStageBuilderBuild(AppStageBuilderNew(name, frequency), nextUnit + 1)

\* The part every call of a system into AppSettings shares: r is what the method returns
Changes(r) ==
    r.busy /= busy_stages \/ r.spare /= spare_stages \/ r.commands /= commands

CallWithin(maxCalls, maxCmds, op, given, anchor, r) ==
    /\ inUnit
    /\ hasSettings
    /\ lastResult = NoResult
    /\ calls < maxCalls
    /\ Len(r.commands) <= maxCmds
    /\ calls' = IF Changes(r) THEN calls + 1 ELSE calls
    /\ busy_stages' = r.busy
    /\ spare_stages' = r.spare
    /\ commands' = r.commands
    /\ lastResult' = [op |-> op, status |-> r.status, given |-> given, anchor |-> anchor,
                      back |-> r.back]
    /\ UNCHANGED <<pc, idx, inUnit, readers, stage_builders, lastBatch, inited, played,
                   freed, inserted, hasSettings, removed, meter>>

Call(op, given, anchor, r) == CallWithin(MaxCalls, MaxCmds, op, given, anchor, r)

CallWithStage(op, stage, anchor, r) ==
    /\ nextUnit < MaxStages
    /\ nextUnit' = IF r.status = "Ok" THEN nextUnit + 1 ELSE nextUnit
    /\ Call(op, stage, anchor, r)
    /\ UNCHANGED <<quitSeen, parked>>

CallByName(op, stage_name, anchor, r) ==
    /\ Call(op, [name |-> stage_name], anchor, r)
    /\ UNCHANGED <<nextUnit, quitSeen, parked>>

PushStageToWorkBefore(name, frequency, after_stage_name) ==
    CallWithStage("push_stage_to_work_before", FreshStage(name, frequency), after_stage_name,
        push_stage_to_work_before(Settings, FreshStage(name, frequency), after_stage_name))

PushStageToWork(name, frequency) ==
    CallWithStage("push_stage_to_work", FreshStage(name, frequency), "none",
        push_stage_to_work(Settings, FreshStage(name, frequency)))

PushStageToWorkAfter(name, frequency, before_stage_name) ==
    CallWithStage("push_stage_to_work_after", FreshStage(name, frequency), before_stage_name,
        push_stage_to_work_after(Settings, FreshStage(name, frequency), before_stage_name))

PushStageToRest(name, frequency) ==
    CallWithStage("push_stage_to_rest", FreshStage(name, frequency), "none",
        push_stage_to_rest(Settings, FreshStage(name, frequency)))

TakeSpareStage(stage_name) ==
    CallByName("take_spare_stage", stage_name, "none", take_spare_stage(Settings, stage_name))

MakeSpareStageWorkBefore(stage_name, after_stage_name) ==
    CallByName("make_spare_stage_work_before", stage_name, after_stage_name,
        make_spare_stage_work_before(Settings, stage_name, after_stage_name))

MakeSpareStageWork(stage_name) ==
    CallByName("make_spare_stage_work", stage_name, "none",
        make_spare_stage_work(Settings, stage_name))

MakeSpareStageWorkAfter(stage_name, before_stage_name) ==
    CallByName("make_spare_stage_work_after", stage_name, before_stage_name,
        make_spare_stage_work_after(Settings, stage_name, before_stage_name))

MakeBusyStageRest(stage_name) ==
    CallByName("make_busy_stage_rest", stage_name, "none",
        make_busy_stage_rest(Settings, stage_name))

SetStageFrequency(stage_name, frequency) ==
    /\ Call("set_stage_frequency", [name |-> stage_name, frequency |-> frequency], "none",
            set_stage_frequency(Settings, stage_name, frequency))
    /\ parked' = IF is_in_spare(Settings, stage_name)
                 THEN {p \in parked : p.startup /=
                          spare_stages[FindIndex(spare_stages, stage_name)].startup}
                 ELSE parked
    /\ UNCHANGED <<nextUnit, quitSeen>>

Quit ==
    /\ Call("quit", NoStage, "none", quit(Settings))
    /\ quitSeen' = IF quitSeen = "no" THEN "issued" ELSE quitSeen
    /\ UNCHANGED <<nextUnit, parked>>

\* A system moves the AppSettings value out of the resource store (resources.remove)
RemoveSettings ==
    /\ inUnit
    /\ hasSettings
    /\ lastResult = NoResult
    /\ calls < MaxCalls
    /\ calls' = calls + 1
    /\ hasSettings' = FALSE
    /\ removed' = TRUE
    /\ UNCHANGED <<pc, idx, inUnit, readers, stage_builders, busy_stages, spare_stages,
                   commands, nextUnit, lastResult, lastBatch, inited, played, freed, quitSeen,
                   parked, inserted, meter>>

\* The system that holds the moved value puts it back (resources.insert)
InsertSettings ==
    /\ inUnit
    /\ ~hasSettings
    /\ lastResult = NoResult
    /\ hasSettings' = TRUE
    /\ UNCHANGED <<pc, idx, inUnit, readers, stage_builders, busy_stages, spare_stages,
                   commands, nextUnit, lastResult, lastBatch, inited, played, freed, quitSeen,
                   parked, calls, inserted, removed, meter>>

\* ---------------------------------------------------------------- specification
Next ==
    \/ \E n \in Names, f \in Freqs : AddStageBuilder(n, f)
    \/ \E n \in Names, f \in Freqs : CreateStageBuilder(n, f)
    \/ IntoAppBuilder
    \/ BuildAndRun
    \/ InitStage
    \/ UnitReturn
    \/ ResultDropped
    \/ PassDone
    \/ Apply
    \/ PlayStage(1)
    \/ FreeStage
    \/ FreeDone
    \/ \E n \in Names, a \in Names : PushStageToWorkBefore(n, 1, a)
    \/ \E n \in Names : PushStageToWork(n, 1)
    \/ \E n \in Names, a \in Names : PushStageToWorkAfter(n, 1, a)
    \/ \E n \in Names : PushStageToRest(n, 1)
    \/ \E n \in Names : TakeSpareStage(n)
    \/ \E n \in Names, a \in Names : MakeSpareStageWorkBefore(n, a)
    \/ \E n \in Names : MakeSpareStageWork(n)
    \/ \E n \in Names, a \in Names : MakeSpareStageWorkAfter(n, a)
    \/ \E n \in Names : MakeBusyStageRest(n)
    \/ \E n \in Names, f \in Freqs : SetStageFrequency(n, f)
    \/ Quit
    \/ RemoveSettings
    \/ InsertSettings

Spec == Init /\ [][Next]_vars

\* ---------------------------------------------------------------- progress of run()
\* run() is sequential code on one thread: the statement it is at gets executed
RunStep ==
    \/ InitStage
    \/ PassDone
    \/ Apply
    \/ PlayStage(1)
    \/ FreeStage
    \/ FreeDone

\* run() makes progress, a caller lets go of the Result it was handed, and a schedule
\* that is executing returns: its systems make finitely many calls into AppSettings
SpecLive ==
    /\ Spec
    /\ WF_vars(RunStep)
    /\ WF_vars(ResultDropped)
    /\ SF_vars(UnitReturn)

\* ---------------------------------------------------------------- the a, b, c application
\* AppBuilder with the stage builders a, b, c added in that order, any frequencies;
\* its systems reconfigure nothing: the only call into AppSettings is quit().
ABC == <<"a", "b", "c">>

NextABC ==
    \/ \E f \in Freqs :
          /\ Len(stage_builders) < Len(ABC)
          /\ AddStageBuilder(ABC[Len(stage_builders) + 1], f)
    \/ (Len(stage_builders) = Len(ABC) /\ BuildAndRun)
    \/ InitStage
    \/ UnitReturn
    \/ ResultDropped
    \/ PassDone
    \/ Apply
    \/ \E d \in {0, 1} : PlayStage(d)
    \/ FreeStage
    \/ FreeDone
    \/ Quit

SpecABC == Init /\ [][NextABC]_vars

\* ---------------------------------------------------------------- the timer scenario
\* One stage whose timer is observed from some accumulated time on, over the play calls
\* it receives: each call hands the elapsed time since the call before to update().
InitTimer ==
    \E f \in Freqs, l \in 0..MaxLeftover :
        /\ pc = "timer"
        /\ idx = 1
        /\ inUnit = FALSE
        /\ readers = 0
        /\ stage_builders = <<AppStageBuilderNew("a", f)>>
        /\ busy_stages = <<[AppStageBuilderBuild(AppStageBuilderNew("a", f), 1)
                               EXCEPT !.timer.accumulated_time = l]>>
        /\ spare_stages = <<>>
        /\ commands = <<>>
        /\ nextUnit = 1
        /\ lastResult = NoResult
        /\ lastBatch = NoBatch
        /\ inited = <<>>
        /\ played = <<>>
        /\ freed = <<>>
        /\ quitSeen = "no"
        /\ parked = {}
        /\ calls = 0
        /\ inserted = {}
        /\ hasSettings = TRUE
        /\ removed = FALSE
        /\ meter = [NoMeter EXCEPT !.leftover_0 = l]

TimerPlay(delta) ==
    /\ pc = "timer"
    /\ meter.elapsed + delta <= MaxTime
    /\ LET r == play(busy_stages[1], delta)
       IN  /\ busy_stages' = <<r[1]>>
           /\ meter' = [meter EXCEPT !.elapsed = @ + delta,
                                     !.ticks = IF r[2] THEN @ + 1 ELSE @,
                                     !.largest = IF delta > @ THEN delta ELSE @,
                                     !.updated = TRUE]
    /\ UNCHANGED <<pc, idx, inUnit, readers, stage_builders, spare_stages, commands,
                   nextUnit, lastResult, lastBatch, inited, played, freed, quitSeen, parked,
                   calls, inserted, hasSettings, removed>>

NextTimer == \E delta \in 0..MaxDelta : TimerPlay(delta)

SpecTimer == InitTimer /\ [][NextTimer]_vars

\* ---------------------------------------------------------------- physics and render
\* Two busy stages, physics at 60 and render at 30 ticks per second, their timers at
\* zero, in the play passes of the run loop: every play call hands 1/120 s, one unit
\* of time, to update(). The meter counts, per stage, the play calls received and the
\* executions of the process schedule.
Physics == AppStageBuilderNew("physics", 60)

Render == AppStageBuilderNew("render", 30)

InitScenario ==
    /\ pc = "scenario"
    /\ idx = 1
    /\ inUnit = FALSE
    /\ readers = 1
    /\ stage_builders = <<Physics, Render>>
    /\ busy_stages = <<AppStageBuilderBuild(Physics, 1), AppStageBuilderBuild(Render, 2)>>
    /\ spare_stages = <<>>
    /\ commands = <<>>
    /\ nextUnit = 2
    /\ lastResult = NoResult
    /\ lastBatch = NoBatch
    /\ inited = <<1, 2>>
    /\ played = <<>>
    /\ freed = <<>>
    /\ quitSeen = "no"
    /\ parked = {}
    /\ calls = 0
    /\ inserted = {}
    /\ hasSettings = TRUE
    /\ removed = FALSE
    /\ meter = [plays |-> <<0, 0>>, executed |-> <<0, 0>>]

\* one play call of the pass: physics, then render, then physics of the next pass
ScenarioPlay ==
    /\ pc = "scenario"
    /\ meter.plays[idx] < 120
    /\ LET r == play(busy_stages[idx], 1)
       IN  /\ busy_stages' = [busy_stages EXCEPT ![idx] = r[1]]
           /\ meter' = [plays |-> [meter.plays EXCEPT ![idx] = @ + 1],
                        executed |-> [meter.executed EXCEPT
                                         ![idx] = IF r[2] THEN @ + 1 ELSE @]]
    /\ idx' = IF idx = Len(busy_stages) THEN 1 ELSE idx + 1
    /\ played' = IF idx = 1 THEN <<busy_stages[idx].startup>>
                  ELSE Append(played, busy_stages[idx].startup)
    /\ UNCHANGED <<pc, inUnit, readers, stage_builders, spare_stages, commands,
                   nextUnit, lastResult, lastBatch, inited, freed, quitSeen, parked,
                   calls, inserted, hasSettings, removed>>

NextScenario == ScenarioPlay

SpecScenario == InitScenario /\ [][NextScenario]_vars

\* ---------------------------------------------------------------- the batch scenario
\* An application built from a and b whose systems park stages and quit, with up to
\* MaxBatch commands in one batch.
BatchPark(stage_name) ==
    /\ CallWithin(MaxBatch, MaxBatch, "make_busy_stage_rest", [name |-> stage_name], "none",
                  make_busy_stage_rest(Settings, stage_name))
    /\ UNCHANGED <<nextUnit, quitSeen, parked>>

BatchQuit ==
    /\ CallWithin(MaxBatch, MaxBatch, "quit", NoStage, "none", quit(Settings))
    /\ quitSeen' = IF quitSeen = "no" THEN "issued" ELSE quitSeen
    /\ UNCHANGED <<nextUnit, parked>>

NextBatch ==
    \/ /\ Len(stage_builders) < 2
       /\ AddStageBuilder(ABC[Len(stage_builders) + 1], 1)
    \/ (Len(stage_builders) = 2 /\ BuildAndRun)
    \/ InitStage
    \/ UnitReturn
    \/ ResultDropped
    \/ PassDone
    \/ Apply
    \/ PlayStage(1)
    \/ FreeStage
    \/ FreeDone
    \/ \E n \in Names : BatchPark(n)
    \/ BatchQuit

SpecBatch == Init /\ [][NextBatch]_vars

NamesOf(stages) == [i \in DOMAIN stages |-> stages[i].name]

\* the first k elements of a sequence
Prefix(s, k) == SubSeq(s, 1, k)

\* how many stages of the current traversal have had their call
Visited == IF inUnit THEN idx ELSE idx - 1

\* C1: built from a, b, c in that order, run() calls init on a, b, c in order exactly
\* once each, then in every iteration play on a, b, c in order, and after a quit is
\* applied free on a, b, c in order; no init after the first play, no play after the
\* first free; a process schedule executes only when that stage's own timer ticks.
C1_Order ==
    /\ pc /= "build" => NamesOf(busy_stages) = ABC /\ Units(busy_stages) = <<1, 2, 3>>
    /\ pc = "build" => inited = <<>> /\ played = <<>> /\ freed = <<>>
    /\ pc = "init" => inited = Prefix(<<1, 2, 3>>, Visited) /\ played = <<>> /\ freed = <<>>
    /\ pc \in {"apply", "play", "free", "done"} => inited = <<1, 2, 3>>
    /\ pc = "play" => played = Prefix(<<1, 2, 3>>, Visited) /\ freed = <<>>
    /\ pc = "apply" => played \in {<<>>, <<1, 2, 3>>} /\ freed = <<>>
    /\ pc = "free" => freed = Prefix(<<1, 2, 3>>, Visited) /\ played \in {<<>>, <<1, 2, 3>>}
    /\ pc = "done" => freed = <<1, 2, 3>> /\ played \in {<<>>, <<1, 2, 3>>}
    /\ pc \in {"free", "done"} <=> quitSeen = "applied"

C1_Gated ==
    (pc = "play" /\ played' /= played) =>
        \E d \in {0, 1} :
            LET timer == busy_stages[idx].timer
                acc == timer.accumulated_time + d
                tick == acc >= Interval(timer.ticks_per_second)
            IN  /\ inUnit' = tick
                /\ busy_stages'[idx].timer.accumulated_time =
                      IF tick THEN acc - Interval(timer.ticks_per_second) ELSE acc
                /\ \A j \in DOMAIN busy_stages : j /= idx => busy_stages'[j] = busy_stages[j]

\* C1: with a, b, c registered in that order and no command but quit, startup, process
\* and destroy each run in the order a, b, c, and a process schedule runs only on a tick
\* of its own stage's timer.
C1_Lifecycle == [](C1_Order) /\ [][C1_Gated]_vars

\* a run that went through two play passes and ended: all three free calls made
C1_Witness == pc = "done" /\ freed = <<1, 2, 3>> /\ played = <<1, 2, 3>>

\* C2: when quit() is issued during the play pass of an iteration, every stage of the
\* busy list still gets its play call in that iteration, the stages after the issuing
\* one included, and no play call of a later iteration ever happens.
C2_NoLaterIteration ==
    quitSeen = "applied" =>
        /\ pc \in {"free", "done"}
        /\ played \in {<<>>, Units(busy_stages)}

C2_PassCompletes ==
    (pc = "play" /\ quitSeen' = "issued" /\ pc' /= "play") =>
        /\ pc' = "apply"
        /\ played' = Units(busy_stages')
        /\ Len(played') = Len(ABC)

\* C2: after a quit() issued during a play pass that pass still visits every busy stage,
\* and no further play pass begins.
C2_QuitDuringPlay == [](C2_NoLaterIteration) /\ [][C2_PassCompletes]_vars

\* quit() was issued by stage a in a play pass, and the pass goes on to stage b
C2_Witness ==
    pc = "play" /\ quitSeen = "issued" /\ idx = 2 /\ ~inUnit /\ played = <<1>>

\* ---------------------------------------------------------------- reconfiguration
Struct(stages) == [i \in DOMAIN stages |-> View(stages[i])]

PushTypes == {"PushStageToWorkBefore", "PushStageToWork", "PushStageToWorkAfter"}

\* the stages the queued commands carry, in queue order
Payload(cmds) ==
    LET carrying == SelectSeq(cmds, LAMBDA c : c.type \in PushTypes)
    IN  [i \in DOMAIN carrying |-> carrying[i].stage]

\* every stage value the application holds
Held == busy_stages \o spare_stages \o Payload(commands)

\* a system's call into AppSettings returns in this step
Returns(ops) == lastResult = NoResult /\ lastResult'.op \in ops

\* C3: the busy list is changed (membership, order, frequencies) only by the apply step
\* between traversals; no call a system makes during a traversal changes it, and no
\* borrow_mut() of the list meets the traversal's borrow().
C3_Borrows ==
    /\ readers > 0 <=> pc \in {"init", "play", "free"}
    /\ inUnit => readers > 0
    /\ lastBatch.out /= "already borrowed"

C3_OnlyApplyWrites ==
    Struct(busy_stages') /= Struct(busy_stages) =>
        \/ pc = "build"
        \/ pc = "apply" /\ readers = 0

\* C3: the busy list is never written while it is being traversed or read; only apply()
\* (and the construction of the app) writes it, and then no reader holds it.
C3_BusyListExclusive == [](C3_Borrows) /\ [][C3_OnlyApplyWrites]_vars

\* during a play pass a system's set_stage_frequency on a busy stage was accepted
C3_Witness ==
    /\ pc = "play" /\ inUnit
    /\ lastResult.op = "set_stage_frequency" /\ lastResult.status = "Ok"
    /\ \E i \in DOMAIN commands :
          /\ commands[i].type = "SetBusyStageFrequency"
          /\ \E j \in DOMAIN busy_stages :
                /\ busy_stages[j].name = commands[i].stage_name
                /\ busy_stages[j].timer.ticks_per_second /= commands[i].frequency

\* C4: no stage name occurs twice across the busy list, the spare list and the stages
\* of the queued commands.
C4_NamesUnique ==
    \A i, j \in DOMAIN Held : i /= j => Held[i].name /= Held[j].name

\* C5: apply() never fails a lookup by name, whatever accepted commands the batch holds.
C5_ApplyNeverFaults == pc /= "fault" /\ lastBatch.out /= "panic"

\* C6: every stage the application holds is in exactly one of the busy list, the spare
\* list and the queue, and no call or apply step lets a held stage leave all three
\* (the caller asking for it with take_spare_stage aside).
C6_HeldOnce ==
    \A i, j \in DOMAIN Held : i /= j => Held[i].startup /= Held[j].startup

C6_NoneLeaves ==
    \/ UnitSet(Held) \subseteq UnitSet(Held')
    \/ Returns({"take_spare_stage"})

\* C6: every stage is held by at most one of busy list, spare list and command queue,
\* and no operation but take_spare_stage leaves a held stage in none of the three.
C6_HeldByExactlyOne == [](C6_HeldOnce) /\ [][C6_NoneLeaves]_vars

\* C7: once apply() has completed, the stage of every push_stage_to_work_before(X, A)
\* it drained is in the busy list immediately before a stage named A.
ImmediatelyBefore(stages, unit, anchor) ==
    \E i \in 1..(Len(stages) - 1) :
        stages[i].startup = unit /\ stages[i + 1].name = anchor

\* C7 as stated: after the apply() that follows an accepted push_stage_to_work_before(X, A),
\* X is in the busy list immediately before A.
C7_Original ==
    lastBatch.out \in {"false", "true"} =>
        \A i \in DOMAIN lastBatch.cmds :
            lastBatch.cmds[i].type = "PushStageToWorkBefore" =>
                ImmediatelyBefore(busy_stages, lastBatch.cmds[i].stage.startup,
                                  lastBatch.cmds[i].after_stage_name)

\* a later command of the batch that was applied and moves A away from X
Displaces(c, anchor) ==
    \/ c.type = "PushStageToWorkBefore" /\ c.after_stage_name = anchor
    \/ c.type = "MakeBusyStageToRest" /\ c.stage_name = anchor

\* C7 as amended: ... provided apply() reaches the command (no quit ahead of it, no
\* failed lookup) and no later command it applies inserts before A or parks A.
C7_InsertBefore ==
    lastBatch.out \in {"false", "true"} =>
        \A i \in 1..lastBatch.done :
            (/\ lastBatch.cmds[i].type = "PushStageToWorkBefore"
             /\ \A j \in (i + 1)..lastBatch.done :
                    ~Displaces(lastBatch.cmds[j], lastBatch.cmds[i].after_stage_name))
            => ImmediatelyBefore(busy_stages, lastBatch.cmds[i].stage.startup,
                                 lastBatch.cmds[i].after_stage_name)

\* a batch of two commands was applied, the first an insertion before an anchor
C7_Witness ==
    /\ lastBatch.out = "false" /\ lastBatch.done = 2
    /\ lastBatch.cmds[1].type = "PushStageToWorkBefore"
    /\ ~Displaces(lastBatch.cmds[2], lastBatch.cmds[1].after_stage_name)
    /\ Len(busy_stages) = 3

PushWorkOps ==
    {"push_stage_to_work", "push_stage_to_work_before", "push_stage_to_work_after"}

PushOps == PushWorkOps \cup {"push_stage_to_rest"}

DuplicateName == {"DuplicateNameInBusy", "DuplicateNameInSpare"}

\* the call that returns in this step was given a stage whose name the busy list or
\* the spare list already had
GivenDuplicate ==
    /\ Returns(PushOps)
    /\ \/ is_in_busy(Settings, lastResult'.given.name)
       \/ is_in_spare(Settings, lastResult'.given.name)

\* C8: a push of a stage whose name is already in the busy or the spare list fails
\* with DuplicateNameInBusy or DuplicateNameInSpare carrying that stage, whatever the
\* anchor.
C8_Original ==
    [][GivenDuplicate =>
          /\ lastResult'.status \in DuplicateName
          /\ lastResult'.back = lastResult'.given]_vars

\* C8 as amended: ... fails and carries that stage back; the error is DuplicateNameInBusy
\* or DuplicateNameInSpare when the call takes no anchor or its anchor is in the busy
\* list, and StageNotExistInBusy when its anchor is not in the busy list.
C8_Step ==
    GivenDuplicate =>
        /\ lastResult'.back = lastResult'.given
        /\ lastResult'.back.name = lastResult'.given.name
        /\ IF lastResult'.anchor /= "none" /\ ~is_in_busy(Settings, lastResult'.anchor)
           THEN lastResult'.status = "StageNotExistInBusy"
           ELSE lastResult'.status =
                    IF is_in_busy(Settings, lastResult'.given.name)
                    THEN "DuplicateNameInBusy" ELSE "DuplicateNameInSpare"

\* C8 as amended: a push of a duplicate name fails and carries the stage back; the error is
\* StageNotExistInBusy when the anchor is not busy, DuplicateNameIn{Busy,Spare} otherwise.
C8_DuplicateRejected == [][C8_Step]_vars

\* a push of a stage named like a parked one came back with DuplicateNameInSpare
C8_Witness ==
    /\ lastResult.op \in PushOps
    /\ lastResult.status = "DuplicateNameInSpare"
    /\ is_in_spare(Settings, lastResult.given.name)

\* C9: a push_stage_to_work, _before or _after call that fails returns the stage it was
\* given inside the error, enqueues nothing and leaves the busy list, the spare list
\* and the queue as they were.
C9_Step ==
    (Returns(PushWorkOps) /\ lastResult'.status /= "Ok") =>
        /\ lastResult'.back = lastResult'.given
        /\ busy_stages' = busy_stages
        /\ spare_stages' = spare_stages
        /\ commands' = commands

\* C9: a failed push_stage_to_work / _before / _after returns the very stage it was given
\* and leaves the busy list, the spare list and the command queue unchanged.
C9_FailedPushChangesNothing == [][C9_Step]_vars

\* push_stage_to_work_after failed on its anchor while a command was queued
C9_Witness ==
    /\ lastResult.op = "push_stage_to_work_after"
    /\ lastResult.status = "StageNotExistInBusy"
    /\ commands /= <<>>

\* C10: a stage that apply() parked and that a make_spare_stage_work call and a second
\* apply() brought back is in the busy list with the name, the frequency and the three
\* schedules it had when it was parked.
C10_RoundTrip ==
    \A i \in DOMAIN busy_stages : \A p \in parked :
        p.startup = busy_stages[i].startup => View(busy_stages[i]) = p

\* a stage of frequency 2 is back in the busy list through a drained insertion command
C10_Witness ==
    \E i \in DOMAIN busy_stages :
        /\ View(busy_stages[i]) \in parked
        /\ busy_stages[i].timer.ticks_per_second = 2
        /\ \E j \in 1..lastBatch.done :
              /\ lastBatch.cmds[j].type \in PushTypes
              /\ lastBatch.cmds[j].stage.startup = busy_stages[i].startup

\* ---------------------------------------------------------------- parking and frequency
\* the elements of a sequence that are in a set, in their order
Restrict(seq, set) == SelectSeq(seq, LAMBDA u : u \in set)

\* the busy stage a name denotes: the first of that name
BusyNamed(stage_name) == busy_stages[FindIndex(busy_stages, stage_name)]

ParkCmds(cmds) == SelectSeq(cmds, LAMBDA c : c.type = "MakeBusyStageToRest")

\* while a park command waits in the queue its stage is in the busy list and not in the
\* spare list
C11_Queued ==
    \A i \in DOMAIN commands :
        commands[i].type = "MakeBusyStageToRest" =>
            /\ is_in_busy(Settings, commands[i].stage_name)
            /\ BusyNamed(commands[i].stage_name).startup \notin UnitSet(spare_stages)

\* make_busy_stage_rest returns Ok exactly for a name of the busy list; it moves nothing
C11_Call ==
    Returns({"make_busy_stage_rest"}) =>
        /\ lastResult'.status = "Ok" <=> is_in_busy(Settings, lastResult'.given.name)
        /\ busy_stages' = busy_stages
        /\ spare_stages' = spare_stages
        /\ commands' = IF lastResult'.status = "Ok"
                       THEN Append(commands, [type |-> "MakeBusyStageToRest",
                                              stage_name |-> lastResult'.given.name])
                       ELSE commands

\* the stages the apply step parked: those of the park commands among the first n
C11_Parked(n) ==
    LET parks == ParkCmds(SubSeq(commands, 1, n))
    IN  /\ Len(spare_stages') = Len(spare_stages) + Len(parks)
        /\ SubSeq(spare_stages', 1, Len(spare_stages)) = spare_stages
        /\ \A k \in DOMAIN parks :
              LET x == spare_stages'[Len(spare_stages) + k]
              IN  /\ x.name = parks[k].stage_name
                  /\ x.startup \in UnitSet(busy_stages)
                  /\ x.startup \notin UnitSet(busy_stages')
        /\ Restrict(Units(busy_stages), UnitSet(busy_stages')) =
              Restrict(Units(busy_stages'), UnitSet(busy_stages))

\* C11 as stated: at the apply step that follows an accepted make_busy_stage_rest(X), X
\* leaves the busy list for the end of the spare list, whatever else the batch holds.
C11_Original ==
    [][pc = "apply" =>
          \A i \in DOMAIN commands :
              commands[i].type = "MakeBusyStageToRest" =>
                  LET x == BusyNamed(commands[i].stage_name)
                  IN  /\ x.startup \notin UnitSet(busy_stages')
                      /\ x.startup \in UnitSet(spare_stages')]_vars

\* C11 as amended: make_busy_stage_rest(X) succeeds only for X in the busy list; X stays in
\* the busy list and out of the spare list until the next apply step; every park command
\* that apply step completes (none behind a quit command or a failed lookup) moves its
\* stage from the busy list to the end of the spare list as it then is, and the stages
\* that stay busy keep their relative order.
C11_ParkDeferred ==
    /\ [](C11_Queued)
    /\ [][C11_Call /\ (pc = "apply" => C11_Parked(lastBatch'.done))]_vars

\* a batch of two commands was applied, a park among them, and a stage stayed busy
C11_Witness ==
    /\ lastBatch.out = "false" /\ lastBatch.done = 2
    /\ \E i \in 1..2 :
          /\ lastBatch.cmds[i].type = "MakeBusyStageToRest"
          /\ is_in_spare(Settings, lastBatch.cmds[i].stage_name)
    /\ busy_stages /= <<>>

\* the frequency of the stage value with the given schedules, wherever it is held
FrequencyOf(stages, unit) ==
    LET i == CHOOSE i \in DOMAIN stages : stages[i].startup = unit
    IN  stages[i].timer.ticks_per_second

IsSetFrequency(c, stage_name) ==
    c.type = "SetBusyStageFrequency" /\ c.stage_name = stage_name

IsPark(c, stage_name) ==
    c.type = "MakeBusyStageToRest" /\ c.stage_name = stage_name

\* set_stage_frequency when it returns: spare first, then busy, else StageNotExist
C12_Call ==
    Returns({"set_stage_frequency"}) =>
        LET n == lastResult'.given.name
            f == lastResult'.given.frequency
            k == FindIndex(spare_stages, n)
        IN  IF is_in_spare(Settings, n)
            THEN /\ lastResult'.status = "Ok"
                 /\ spare_stages' = [spare_stages EXCEPT ![k].timer.ticks_per_second = f]
                 /\ busy_stages' = busy_stages /\ commands' = commands
            ELSE IF is_in_busy(Settings, n)
            THEN /\ lastResult'.status = "Ok"
                 /\ Len(commands') = Len(commands) + 1
                 /\ SubSeq(commands', 1, Len(commands)) = commands
                 /\ IsSetFrequency(commands'[Len(commands')], n)
                 /\ commands'[Len(commands')].frequency = f
                 /\ busy_stages' = busy_stages /\ spare_stages' = spare_stages
            ELSE /\ lastResult'.status = "StageNotExist"
                 /\ busy_stages' = busy_stages /\ spare_stages' = spare_stages
                 /\ commands' = commands

\* the i-th command of the batch, a SetBusyStageFrequency, has taken effect on its stage
C12_Effect(i) ==
    FrequencyOf(busy_stages' \o spare_stages', BusyNamed(commands[i].stage_name).startup)
        = commands[i].frequency

C12_Applied ==
    (pc = "apply" /\ hasSettings) =>
        \A i \in DOMAIN commands :
            LET n == commands[i].stage_name
                done == lastBatch'.done
            IN  (/\ commands[i].type = "SetBusyStageFrequency"
                 /\ i <= done + 1)
                => IF \E j \in 1..(i - 1) : IsPark(commands[j], n)
                   THEN i = done + 1 /\ pc' = "fault"
                   ELSE /\ i <= done
                        /\ (\A j \in (i + 1)..done : ~IsSetFrequency(commands[j], n))
                              => C12_Effect(i)

Range(seq) == {seq[i] : i \in DOMAIN seq}

\* C13 as stated: when the run leaves the pass that follows an apply step, every stage that
\* step inserted has received a play call.
C13_Original ==
    [][(pc \in {"play", "free"} /\ pc' /= pc) => inserted \subseteq Range(played)]_vars

\* the play pass calls play on the busy stages in list order, the inserted ones included
C13_InPass ==
    pc = "play" =>
        /\ played = Prefix(Units(busy_stages), Visited)
        /\ inserted \subseteq UnitSet(busy_stages)

C13_PassEnd ==
    (pc = "play" /\ pc' /= "play") =>
        /\ pc' = "apply"
        /\ played' = Units(busy_stages')
        /\ inserted \subseteq Range(played')

C13_ApplyThenPlay ==
    (pc = "apply" /\ pc' = "play") =>
        /\ lastBatch'.done = Len(commands)
        /\ inserted' = InsertedBy(commands, Len(commands))

\* C13 as amended: a stage whose insertion command is applied by an apply step that returns
\* without meeting a quit command or a fault receives a play call in the play pass that
\* follows, at its position in the busy list; behind a quit command or a fault there is
\* no play pass, and a stage inserted ahead of the quit receives free only.
C13_PlayedSameIteration ==
    /\ [](C13_InPass)
    /\ [][C13_PassEnd /\ C13_ApplyThenPlay]_vars

\* the second play call of a pass goes to a stage the apply step before it inserted
C13_Witness ==
    /\ pc = "play" /\ Len(played) = 2
    /\ played[2] \in inserted
    /\ busy_stages[2].startup = played[2]

HasQuit(cmds) == \E i \in DOMAIN cmds : cmds[i].type = "AppQuit"

\* C14 as stated: an apply step whose batch holds a quit command is followed by that
\* iteration's play pass.
C14_Original ==
    [][(pc = "apply" /\ hasSettings /\ HasQuit(commands)) => pc' = "play"]_vars

\* the apply step of a batch that holds a quit command
C14_QuitBatch ==
    (pc = "apply" /\ hasSettings /\ HasQuit(commands)) =>
        LET q == lastBatch'.done + 1
        IN  /\ pc' \in {"free", "fault"}
            /\ played' = played
            /\ \A j \in 1..(q - 1) : commands[j].type /= "AppQuit"
            /\ pc' = "free" <=> commands[q].type = "AppQuit"
            /\ pc' = "fault" <=> lastBatch'.out = "panic"

\* Shutdown is entered from such an apply step only, and no play call follows it
C14_NoPlayAfter ==
    /\ (pc' = "free" /\ pc /= "free") => (pc = "apply" /\ HasQuit(commands))
    /\ pc \in {"free", "done", "fault"} => (played' = played /\ pc' \in {"free", "done"})

\* C14 as amended: when the batch of an apply step contains a quit command, the step
\* applies the commands queued ahead of the first quit, and the loop exits to Shutdown at
\* once, with no play pass after that step (the run ends with a fault instead if a command
\* ahead of the quit fails its lookup); the last play pass is the one before that step.
C14_QuitSkipsPlay == [][C14_QuitBatch /\ C14_NoPlayAfter]_vars

\* a quit issued in a play pass, behind another command, has just been applied
C14_Witness ==
    /\ pc = "free" /\ lastBatch.out = "true" /\ lastBatch.done = 1
    /\ lastBatch.cmds[2].type = "AppQuit"
    /\ played /= <<>> /\ played = Units(busy_stages)

\* the place of the first quit command of a batch
FirstQuit(cmds) ==
    CHOOSE q \in DOMAIN cmds :
        cmds[q].type = "AppQuit" /\ \A j \in 1..(q - 1) : cmds[j].type /= "AppQuit"

\* what the batch does to the lists and the free pass when its commands ahead of the
\* first quit are applied in queue order and the loop then exits
C15_Step ==
    (pc = "apply" /\ hasSettings /\ HasQuit(commands)) =>
        LET q == FirstQuit(commands)
            r == apply([Settings EXCEPT !.commands = SubSeq(commands, 1, q - 1)],
                       parked, readers)
        IN  /\ pc' = "free"
            /\ lastBatch'.done = q - 1
            /\ busy_stages' = r.busy
            /\ spare_stages' = r.spare
            /\ idx' = 1 /\ freed' = <<>>

\* C15: when a batch holds a quit command, the commands queued ahead of it are applied in
\* FIFO order before the loop exits, and Shutdown runs over the busy list they produce.
C15_AppliedBeforeQuit == [][C15_Step]_vars

\* free goes to the stages of the busy list as it is at Shutdown, once each and in list
\* order, and to no stage of the spare list
C16_FreePass ==
    /\ pc \notin {"free", "done"} => freed = <<>>
    /\ pc = "free" => freed = Prefix(Units(busy_stages), Visited)
    /\ pc = "done" => freed = Units(busy_stages)
    /\ \A i, j \in DOMAIN freed : i /= j => freed[i] /= freed[j]
    /\ Range(freed) \cap UnitSet(spare_stages) = {}

\* during Shutdown no stage enters or leaves the busy list
C16_Step ==
    pc \in {"free", "done"} => Units(busy_stages') = Units(busy_stages)

\* C16: at Shutdown free is called once on each stage of the busy list, in list order,
\* and on no stage of the spare list, whether or not that stage had received init.
C16_FreeOnlyBusy == [](C16_FreePass) /\ [][C16_Step]_vars

\* the run ended: a stage that received init was parked and received no free
C16_Witness ==
    /\ pc = "done" /\ freed /= <<>>
    /\ \E i \in DOMAIN spare_stages :
          /\ spare_stages[i].startup \in Range(inited)
          /\ spare_stages[i].startup \notin Range(freed)

\* ---------------------------------------------------------------- the Settings resource
\* C17 as stated: after a removal of the Settings resource during a pass, the next apply
\* step ends the run with a fault.
C17_Original == [][(pc = "apply" /\ removed) => pc' = "moved"]_vars

\* the apply step looks for the resource once, when it begins
C17_Step ==
    /\ (pc = "apply" /\ ~hasSettings) =>
          /\ pc' = "moved"
          /\ played' = played /\ freed' = freed
          /\ busy_stages' = busy_stages
    /\ (pc = "apply" /\ hasSettings) => pc' \in {"play", "free", "fault"}
    /\ pc = "moved" => (pc' = "moved" /\ played' = played /\ freed' = freed)

\* C17 as amended: if the Settings resource is not in the resource store when an apply
\* step begins, that step ends the run with a fault and no play call and no free call
\* occurs afterwards; a resource that was removed during Init or a play pass and put back
\* before that pass ended is not missed, and the run goes on.
C17_MissingSettingsFaults ==
    /\ [][C17_Step]_vars
    /\ [](pc = "moved" => (~hasSettings /\ removed /\ freed = <<>>))

\* the run ended with the fault after a removal during a play pass
C17_Witness == pc = "moved" /\ removed /\ ~hasSettings /\ played /= <<>>

\* ---------------------------------------------------------------- AppBuilder names
Distinct(names) == \A i, j \in DOMAIN names : i /= j => names[i] /= names[j]

\* add_stage_builder and create_stage_builder when they return
C18_Call ==
    Returns({"add_stage_builder", "create_stage_builder"}) =>
        LET sb == lastResult'.given
        IN  IF has_stage(stage_builders, sb.name)
            THEN /\ lastResult'.status = "DuplicateName"
                 /\ lastResult'.back = sb
                 /\ ~has_stage(stage_builders', sb.name)
            ELSE /\ lastResult'.status = "Ok"
                 /\ stage_builders' =
                       IF lastResult'.op = "add_stage_builder"
                       THEN Append(stage_builders, sb) ELSE stage_builders

\* into_app_builder adds the created stage builder; build keeps the names
C18_Built ==
    /\ pc = "stage" => (pc' = "build" /\ stage_builders' = Append(stage_builders, lastResult.given))
    /\ (pc = "build" /\ pc' = "init") =>
          /\ NamesOf(busy_stages') = NamesOf(stage_builders)
          /\ Distinct(NamesOf(busy_stages'))

\* C18: create_stage_builder and add_stage_builder succeed exactly when the name is new to
\* the AppBuilder, return DuplicateName with the rejected stage builder otherwise, never
\* add a name twice, and every App that build() produces has pairwise distinct names.
C18_BuilderNamesUnique ==
    /\ [][C18_Call /\ C18_Built]_vars
    /\ [](Distinct(NamesOf(stage_builders)))

\* create_stage_builder rejected a name that add_stage_builder had added
C18_Witness ==
    /\ lastResult.op = "create_stage_builder"
    /\ lastResult.status = "DuplicateName"
    /\ lastResult.back = lastResult.given
    /\ pc = "build"

\* ---------------------------------------------------------------- the timer's ticks
TheTimer == busy_stages[1].timer

TheInterval == Interval(TheTimer.ticks_per_second)

C20_Step ==
    pc = "timer" =>
        LET delta == meter'.elapsed - meter.elapsed
            before == TheTimer.accumulated_time
            after == busy_stages'[1].timer.accumulated_time
        IN  /\ after >= 0
            /\ before + delta < 2 * TheInterval => after < TheInterval
            /\ before + delta >= 2 * TheInterval =>
                  (after = before + delta - TheInterval /\ after >= TheInterval)

C21_Gated ==
    pc = "scenario" =>
        LET timer == busy_stages[idx].timer
            tick == timer.accumulated_time + 1 >= Interval(timer.ticks_per_second)
        IN  /\ meter'.executed[idx] = meter.executed[idx] + (IF tick THEN 1 ELSE 0)
            /\ \A j \in DOMAIN busy_stages : j /= idx =>
                  /\ meter'.executed[j] = meter.executed[j]
                  /\ busy_stages'[j] = busy_stages[j]

\* after n play calls physics has executed n / 2 times and render n / 4 times: 60 and
\* 30 times after the 120 calls
C21_Counts ==
    pc = "scenario" =>
        /\ meter.executed[1] = meter.plays[1] \div 2
        /\ meter.executed[2] = meter.plays[2] \div 4
        /\ meter.plays = <<120, 120>> => meter.executed = <<60, 30>>

\* C21: physics at 60 and render at 30 ticks per second, timers at zero, 120 play calls
\* of 1/120 s each: the physics process schedule executes exactly 60 times and the
\* render one exactly 30 times, each only in a play call where its own timer ticks.
C21_PhysicsRender == [](C21_Counts) /\ [][C21_Gated]_vars

\* the second is over: 120 play calls each, 60 and 30 executions
C21_Witness ==
    /\ pc = "scenario" /\ meter.plays = <<120, 120>>
    /\ meter.executed = <<60, 30>>
    /\ busy_stages[1].timer.accumulated_time = 0

\* ---------------------------------------------------------------- quit ends the run
\* run() has returned after a free pass over the busy list
C22_Returned == pc = "done" /\ freed = Units(busy_stages)

\* a quit() is issued and not yet acted on: run() returns after the free pass, unless
\* apply() faults or AppSettings leaves the resources
C22_Terminates ==
    (quitSeen = "issued") ~> (C22_Returned \/ pc = "fault" \/ ~hasSettings)

\* quit() itself only queues; the loop leaves Running from the apply step alone, on a
\* batch that holds the quit, and leaves a play pass only when every stage was visited
C22_Step ==
    /\ Returns({"quit"}) =>
          /\ busy_stages' = busy_stages /\ spare_stages' = spare_stages
          /\ pc' = pc /\ idx' = idx /\ inUnit' = inUnit
          /\ commands' = Append(commands, [type |-> "AppQuit"])
    /\ (pc /= "free" /\ pc' = "free") => (pc = "apply" /\ HasQuit(commands))
    /\ (pc = "play" /\ pc' /= "play") =>
          (pc' = "apply" /\ ~inUnit /\ idx > Len(busy_stages))

\* C22: once quit() is issued, with AppSettings kept in the resources, units that
\* terminate and no fault in apply(), the loop leaves Running, runs the free pass over
\* the busy list and run() returns; the quit is acted on at the apply step only.
C22_QuitEndsRun == C22_Terminates /\ [][C22_Step]_vars

\* run() returned on a quit issued by the second stage of a play pass
C22_Witness ==
    /\ C22_Returned /\ quitSeen = "applied" /\ hasSettings
    /\ Len(freed) = 2 /\ Len(played) = 2
    /\ lastBatch = NoBatch

\* ---------------------------------------------------------------- init in the Init phase only
\* the startup schedules of the stages build() put into the busy list, in order
InitialUnits == [k \in 1..Len(stage_builders) |-> k]

\* init has gone to the stages of the initial busy list, once each, and to no other
C23_InitedInitial ==
    /\ pc \in {"build", "stage"} => inited = <<>>
    /\ pc = "init" => inited = Prefix(InitialUnits, Visited)
    /\ pc \in {"apply", "play", "free", "done", "fault", "moved"} => inited = InitialUnits

\* init is called in the init pass only; a play pass and the free pass go over the
\* whole busy list, the stages that never received init included
C23_Step ==
    /\ inited' /= inited => (pc = "init" /\ pc' = "init")
    /\ (pc = "play" /\ pc' = "apply") => played = Units(busy_stages)
    /\ (pc = "free" /\ pc' = "done") => freed = Units(busy_stages)

\* C23: init is called in the Init phase only, exactly once on each stage of the busy
\* list run() starts with; a stage that comes into the busy list by a later command
\* receives play, and free when still busy at Shutdown, and never init.
C23_InitOnlyAtStart == [](C23_InitedInitial) /\ [][C23_Step]_vars

\* a stage pushed to work by a system was played and freed, and never inited
C23_Witness ==
    /\ pc = "done"
    /\ \E i \in DOMAIN busy_stages :
          /\ busy_stages[i].startup > Len(stage_builders)
          /\ busy_stages[i].startup \in Range(played)
          /\ busy_stages[i].startup \in Range(freed)
          /\ busy_stages[i].startup \notin Range(inited)

\* ---------------------------------------------------------------- commands behind a quit
\* the startup schedules of the stages carried by the commands behind the first quit
CarriedBehind(cmds) ==
    {cmds[i].stage.startup :
        i \in {j \in DOMAIN cmds : j > FirstQuit(cmds) /\ cmds[j].type \in PushTypes}}

\* the apply step of a batch that holds a quit: the lists come out as if the queue ended
\* at the first quit, the queue is left empty, and the stages carried by the commands
\* behind the quit are in neither list; apply() returns true at the quit unless a command
\* ahead of it failed its lookup
C24_QuitBatch ==
    (pc = "apply" /\ hasSettings /\ HasQuit(commands)) =>
        LET q == FirstQuit(commands)
            r == apply([Settings EXCEPT !.commands = SubSeq(commands, 1, q)],
                       parked, readers)
        IN  /\ busy_stages' = r.busy
            /\ spare_stages' = r.spare
            /\ commands' = <<>>
            /\ lastBatch'.done < q
            /\ lastBatch'.out \in {"true", "panic"}
            /\ lastBatch'.out = "true" <=> lastBatch'.done = q - 1
            /\ pc' = IF lastBatch'.out = "true" THEN "free" ELSE "fault"
            /\ CarriedBehind(commands) \cap
                  (UnitSet(busy_stages') \cup UnitSet(spare_stages')) = {}

\* after that step the busy list stays as it is, no apply step follows, and free goes
\* to stages of the busy list only
C24_Shutdown ==
    pc \in {"free", "done"} =>
        /\ busy_stages' = busy_stages
        /\ pc' \in {"free", "done"}
        /\ Range(freed') \subseteq UnitSet(busy_stages)

\* C24: commands queued behind a quit command of the same batch are never applied:
\* apply() returns at the quit, the rest of the queue is emptied with no effect on the
\* busy and spare lists, and a stage such a command carries ends up in neither list
\* and receives no free at Shutdown.
C24_BehindQuitDropped == [][C24_QuitBatch /\ C24_Shutdown]_vars

\* apply() has returned at a quit that had a push command queued behind it
C24_Witness ==
    /\ pc = "free" /\ lastBatch.out = "true" /\ lastBatch.done = 0
    /\ Len(lastBatch.cmds) = 2
    /\ lastBatch.cmds[1].type = "AppQuit"
    /\ lastBatch.cmds[2].type \in PushTypes
    /\ lastBatch.cmds[2].stage.startup \notin
          (UnitSet(busy_stages) \cup UnitSet(spare_stages))
    /\ commands = <<>>

\* ---------------------------------------------------------------- a failed activation
ActivateAtOps == {"make_spare_stage_work_before", "make_spare_stage_work_after"}

\* a call make_spare_stage_work_before(X, A) or make_spare_stage_work_after(X, A) with
\* X in the spare list and A not in the busy list
C25_Step ==
    (/\ Returns(ActivateAtOps)
     /\ is_in_spare(Settings, lastResult'.given.name)
     /\ ~is_in_busy(Settings, lastResult'.anchor)) =>
        LET index == FindIndex(spare_stages, lastResult'.given.name)
            X == spare_stages[index]
        IN  /\ lastResult'.status = "StageNotExistInBusy"
            /\ lastResult'.back = X
            /\ commands' = commands
            /\ busy_stages' = busy_stages
            /\ spare_stages' = VecRemove(spare_stages, index)
            /\ X.startup \notin UnitSet(busy_stages')
            /\ X.startup \notin UnitSet(spare_stages')
            /\ X.startup \notin UnitSet(Payload(commands'))

\* C25: make_spare_stage_work_before(X, A) or make_spare_stage_work_after(X, A) with X
\* in the spare list and A not in the busy list fails with StageNotExistInBusy carrying
\* X, queues no command, and has taken X out of the spare list: after the call X is in
\* neither the busy list, the spare list nor the command queue.
C25_FailedActivationTakes == [][C25_Step]_vars

\* such a call has just failed: the stage is with the caller, in the error value
C25_Witness ==
    /\ lastResult.op \in ActivateAtOps
    /\ lastResult.status = "StageNotExistInBusy"
    /\ lastResult.back /= NoStage
    /\ lastResult.back.name = lastResult.given.name
    /\ lastResult.back.startup \notin UnitSet(Held)
    /\ ~is_in_spare(Settings, lastResult.given.name)

====
